---- MODULE Spec2Model ----
(***************************************************************************)
(* ModularDoubleMaStrategy (src/ModularDoubleMaStrategy.py) as a state     *)
(* machine, with the Van Tharp statistics of the two backtest drivers      *)
(* (src/撒普统计对/CTABacktest.py, src/batchBacktest.py).                  *)
(*                                                                         *)
(* Prices, ATR and the moving averages are integers.  An r_value is kept   *)
(* in units of 1e-4, which is the precision round(r_val, 4) leaves.        *)
(* Indicator values come from the ArrayManager of vnpy (outside this       *)
(* repository): each bar delivers them as inputs, the previous bar's fast  *)
(* and slow averages being the ones the previous bar delivered.            *)
(* Orders go to the CTA engine (outside this repository): an order is      *)
(* applied to pos either at once or by a later fill, in any order.         *)
(***************************************************************************)
EXTENDS Integers, Sequences, FiniteSets, TLC

VARIABLES
    am_count,       \* ArrayManager.count
    am_inited,      \* ArrayManager.inited
    am_held,        \* bars held in the arrays of the ArrayManager
    ma_fast,        \* sma(fast_window) at the newest bar of the window
    ma_slow,        \* sma(slow_window) at the newest bar of the window
    pos,            \* CtaTemplate.pos
    long_stop,
    short_stop,
    entry_price,
    initial_risk,
    r_multiples,    \* list of [r_value |-> ...]
    orders,         \* order intents the engine holds unfilled
    sent,           \* order intents emitted by the last operation
    last,           \* what the last operation was and what it read
    closed_trades,  \* number of times pos went from non-zero to zero
    call,           \* the inputs of a call of calculate_position_size (SizerSpec)
    ret             \* the results returned to SizerSpec and StatsSpec

vars == <<am_count, am_inited, am_held, ma_fast, ma_slow, pos, long_stop, short_stop,
          entry_price, initial_risk, r_multiples, orders, sent, last,
          closed_trades, call, ret>>

strategy_vars == <<pos, long_stop, short_stop, entry_price, initial_risk,
                   r_multiples, orders, closed_trades>>

-----------------------------------------------------------------------------
(* Parameters of the strategy class *)

init_capital == 100000
atr_multi == 3
\* risk_percent = 0.01, kept as the fraction risk_percent_num / risk_percent_den
risk_percent_num == 1
risk_percent_den == 100
position_limit == 100
\* ArrayManager(size=150)
am_size == 150

(* Bounds of the model *)

\* bars delivered after the window is inited
MaxLiveBars == 3
\* prices are PriceBase .. PriceBase + PriceSpan
PriceSpan == 1
\* ATR values are 0 .. MaxAtr
MaxAtr == 1
\* moving averages of the crossover are 1 .. MaxMa
MaxMa == 2

\* the lowest price
PriceBase == 10

Prices == PriceBase .. (PriceBase + PriceSpan)
Bars == {b \in [high : Prices, low : Prices, close : Prices] :
            b.low <= b.close /\ b.close <= b.high}
Atrs == 0 .. MaxAtr
Mas == 1 .. MaxMa
\* the three averages of the trend filter (fast, mid, slow): aligned up,
\* aligned down, and tied
Filters == {<<3, 2, 1>>, <<1, 2, 3>>, <<2, 2, 1>>}
\* what the capital probing of calculate_position_size may find
Capitals == {init_capital, 200}

NoBar == [high |-> 0, low |-> 0, close |-> 0]

-----------------------------------------------------------------------------
(* Arithmetic of the Python code *)

Abs(x) == IF x < 0 THEN -x ELSE x
Max(a, b) == IF a >= b THEN a ELSE b
Min(a, b) == IF a <= b THEN a ELSE b

\* int(a / b): the quotient truncated toward zero (b # 0)
TruncDiv(a, b) ==
    LET q == Abs(a) \div Abs(b)
    IN  IF (a < 0) = (b < 0) THEN q ELSE -q

\* round(p / q, 4) in units of 1e-4: nearest, ties to even (q # 0)
Round4(p, q) ==
    LET n == Abs(p) * 10000
        d == Abs(q)
        f == n \div d
        r == n % d
        m == IF 2 * r > d THEN f + 1
             ELSE IF 2 * r < d THEN f
             ELSE IF f % 2 = 0 THEN f ELSE f + 1
    IN  IF (p < 0) = (q < 0) THEN m ELSE -m

-----------------------------------------------------------------------------
(* The strategy's fields, threaded through the handlers of one on_bar call *)

Fields == [pos |-> pos, long_stop |-> long_stop, short_stop |-> short_stop,
           entry_price |-> entry_price, initial_risk |-> initial_risk,
           r_multiples |-> r_multiples, orders |-> orders, sent |-> <<>>,
           closed_trades |-> closed_trades]

\* the change of pos a filled order makes
Signed(o) == IF o.side \in {"buy", "cover"} THEN o.volume ELSE -o.volume

\* the engine applies a fill to pos
Apply(s, o) ==
    LET p == s.pos + Signed(o)
    IN  [s EXCEPT !.pos = p,
                  !.closed_trades = IF s.pos # 0 /\ p = 0 THEN @ + 1 ELSE @]

\* buy / sell / short / cover: the intent goes to the engine, which applies it
\* at once (sync) or holds it for a later fill
send_order(s, side, price, volume, sync) ==
    LET o == [side |-> side, price |-> price, volume |-> volume]
        t == [s EXCEPT !.sent = Append(@, o)]
    IN  IF sync THEN Apply(t, o) ELSE [t EXCEPT !.orders = Append(@, o)]

\* check_pre_condition with comparisons that admit ties
check_pre_condition_loose(f_fast, f_mid, f_slow) ==
    IF f_fast >= f_mid /\ f_mid >= f_slow THEN 1
    ELSE IF f_fast <= f_mid /\ f_mid <= f_slow THEN -1
    ELSE 0

check_pre_condition(f_fast, f_mid, f_slow) ==
    IF f_fast > f_mid /\ f_mid > f_slow THEN 1
    ELSE IF f_fast < f_mid /\ f_mid < f_slow THEN -1
    ELSE 0

\* check_entry_condition looking at the newest bar only
check_entry_condition_level(fast, slow, prev_ma_fast, prev_ma_slow) ==
    IF fast > slow THEN 1
    ELSE IF fast < slow THEN -1
    ELSE 0

check_entry_condition(fast, slow, prev_ma_fast, prev_ma_slow) ==
    IF fast > slow /\ prev_ma_fast <= prev_ma_slow THEN 1
    ELSE IF fast < slow /\ prev_ma_fast >= prev_ma_slow THEN -1
    ELSE 0

\* calculate_position_size without the position limit
calculate_position_size_no_limit(atr, current_capital, multi) ==
    IF atr = 0 THEN [raised |-> FALSE, value |-> 0]
    ELSE LET risk_per_share == atr * multi
         IN  IF risk_per_share = 0 THEN [raised |-> TRUE, value |-> 0]
             ELSE [raised |-> FALSE,
                   value |-> Max(TruncDiv(current_capital * risk_percent_num,
                                          risk_percent_den * risk_per_share), 0)]

\* [raised, value]: raised when the division by risk_per_share is by zero
calculate_position_size(atr, current_capital, multi) ==
    IF atr = 0 THEN [raised |-> FALSE, value |-> 0]
    ELSE LET risk_per_share == atr * multi
         IN  IF risk_per_share = 0 THEN [raised |-> TRUE, value |-> 0]
             ELSE LET theoretical_size ==
                          TruncDiv(current_capital * risk_percent_num,
                                   risk_percent_den * risk_per_share)
                      position_size == Min(theoretical_size, position_limit)
                  IN  [raised |-> FALSE, value |-> Max(position_size, 0)]

\* execute_open keeping a long stop that is above the new one
execute_open_keep_stop(s, bar, direction, atr, current_capital, sync) ==
    IF atr = 0 THEN s
    ELSE LET size == calculate_position_size(atr, current_capital, atr_multi).value
             risk_per_share == atr * atr_multi
         IN  IF size <= 0 THEN s
             ELSE IF direction = 1 THEN
                 [send_order(s, "buy", bar.close + 1, size, sync)
                     EXCEPT !.entry_price = bar.close,
                            !.initial_risk = risk_per_share,
                            !.long_stop = Max(@, bar.close - risk_per_share)]
             ELSE IF direction = -1 THEN
                 [send_order(s, "short", bar.close - 1, size, sync)
                     EXCEPT !.entry_price = bar.close,
                            !.initial_risk = risk_per_share,
                            !.short_stop = bar.close + risk_per_share]
             ELSE s

execute_open(s, bar, direction, atr, current_capital, sync) ==
    IF atr = 0 THEN s
    ELSE LET size == calculate_position_size(atr, current_capital, atr_multi).value
             risk_per_share == atr * atr_multi
         IN  IF size <= 0 THEN s
             ELSE IF direction = 1 THEN
                 [send_order(s, "buy", bar.close + 1, size, sync)
                     EXCEPT !.entry_price = bar.close,
                            !.initial_risk = risk_per_share,
                            !.long_stop = bar.close - risk_per_share]
             ELSE IF direction = -1 THEN
                 [send_order(s, "short", bar.close - 1, size, sync)
                     EXCEPT !.entry_price = bar.close,
                            !.initial_risk = risk_per_share,
                            !.short_stop = bar.close + risk_per_share]
             ELSE s

\* record_r_multiple without its guard, a zero risk giving an r_value of 0
record_r_multiple_unguarded(s, exit_price) ==
    LET profit == IF s.pos > 0 THEN exit_price - s.entry_price
                  ELSE s.entry_price - exit_price
        r_val == IF s.initial_risk = 0 THEN 0 ELSE Round4(profit, s.initial_risk)
    IN  [s EXCEPT !.r_multiples = Append(@, [r_value |-> r_val])]

\* record_r_multiple putting the new record in front of the list
record_r_multiple_in_front(s, exit_price) ==
    IF s.initial_risk = 0 THEN s
    ELSE LET profit == IF s.pos > 0 THEN exit_price - s.entry_price
                       ELSE s.entry_price - exit_price
         IN  [s EXCEPT !.r_multiples =
                 <<[r_value |-> Round4(profit, s.initial_risk)]>> \o @]

record_r_multiple(s, exit_price) ==
    IF s.initial_risk = 0 THEN s
    ELSE LET profit == IF s.pos > 0 THEN exit_price - s.entry_price
                       ELSE s.entry_price - exit_price
         IN  [s EXCEPT !.r_multiples =
                 Append(@, [r_value |-> Round4(profit, s.initial_risk)])]

\* the long stop set to the bar's level without the max
ratchet_long_no_max(stop, bar, atr) == bar.high - atr_multi * atr

\* the two ratchets of check_exit_strategy
ratchet_long(stop, bar, atr) == Max(stop, bar.high - atr_multi * atr)
ratchet_short(stop, bar, atr) == Min(stop, bar.low + atr_multi * atr)

\* check_exit_strategy with strict comparisons of the close and the stop
check_exit_strategy_strict(s, bar, atr, sync) ==
    IF s.pos > 0 THEN
        LET t == [s EXCEPT !.long_stop = ratchet_long(@, bar, atr)]
        IN  IF bar.close < t.long_stop
            THEN record_r_multiple(
                     send_order(t, "sell", bar.close - 1, Abs(t.pos), sync),
                     bar.close)
            ELSE t
    ELSE IF s.pos < 0 THEN
        LET t == [s EXCEPT !.short_stop = ratchet_short(@, bar, atr)]
        IN  IF bar.close > t.short_stop
            THEN record_r_multiple(
                     send_order(t, "cover", bar.close + 1, Abs(t.pos), sync),
                     bar.close)
            ELSE t
    ELSE s

check_exit_strategy(s, bar, atr, sync) ==
    IF s.pos > 0 THEN
        LET t == [s EXCEPT !.long_stop = ratchet_long(@, bar, atr)]
        IN  IF bar.close <= t.long_stop
            THEN record_r_multiple(
                     send_order(t, "sell", bar.close - 1, Abs(t.pos), sync),
                     bar.close)
            ELSE t
    ELSE IF s.pos < 0 THEN
        LET t == [s EXCEPT !.short_stop = ratchet_short(@, bar, atr)]
        IN  IF bar.close >= t.short_stop
            THEN record_r_multiple(
                     send_order(t, "cover", bar.close + 1, Abs(t.pos), sync),
                     bar.close)
            ELSE t
    ELSE s

\* on_bar without its early return
decides_always(inited) == TRUE

\* on_bar returns before any decision while the window is not inited
decides(inited) == inited

\* on_bar running its entry logic whatever pos is
enters_always(p) == TRUE

\* the entry logic of on_bar runs when pos == 0 after the exit check
enters(p) == p = 0

\* on_bar without the comparison of the two conditions
agree_nonzero(pre_cond, entry_cond) == pre_cond # 0 /\ entry_cond # 0

\* on_bar opens when both conditions are non-zero and equal
agree(pre_cond, entry_cond) ==
    pre_cond # 0 /\ entry_cond # 0 /\ pre_cond = entry_cond

-----------------------------------------------------------------------------
(* The operations *)

Idle == [op |-> "none", bar |-> NoBar, atr |-> 0, decided |-> FALSE,
         evaluated |-> FALSE, pos_seen |-> 0, pre_cond |-> 0, entry_cond |-> 0]

Init ==
    /\ am_count = 0
    /\ am_inited = FALSE
    /\ am_held = 0
    /\ ma_fast \in Mas
    /\ ma_slow \in Mas
    /\ pos = 0
    /\ long_stop = 0
    /\ short_stop = 0
    /\ entry_price = 0
    /\ initial_risk = 0
    /\ r_multiples = <<>>
    /\ orders = <<>>
    /\ sent = <<>>
    /\ last = Idle
    /\ closed_trades = 0
    /\ call = <<>>
    /\ ret = {}

Store(s) ==
    /\ pos' = s.pos
    /\ long_stop' = s.long_stop
    /\ short_stop' = s.short_stop
    /\ entry_price' = s.entry_price
    /\ initial_risk' = s.initial_risk
    /\ r_multiples' = s.r_multiples
    /\ orders' = s.orders
    /\ sent' = s.sent
    /\ closed_trades' = s.closed_trades

\* update_bar with inited recomputed on every bar as count == size
update_bar_unlatched(fast, slow) ==
    /\ am_count' = am_count + 1
    /\ am_inited' = (am_count + 1 = am_size)
    /\ am_held' = Min(am_held + 1, am_size)
    /\ ma_fast' = fast
    /\ ma_slow' = slow

\* am.update_bar(bar): count += 1, inited once count >= size; the arrays have
\* am_size slots and the oldest bar is shifted out for the newest
update_bar(fast, slow) ==
    /\ am_count' = am_count + 1
    /\ am_inited' = (am_inited \/ am_count + 1 >= am_size)
    /\ am_held' = Min(am_held + 1, am_size)
    /\ ma_fast' = fast
    /\ ma_slow' = slow

\* what a call read: the bar and the ATR when the exit check or an entry used
\* them, pos as the entry guard found it, and the two conditions when the
\* entry logic evaluated them
Read(bar, atr, used, evaluated, pos_seen, pre_cond, entry_cond) ==
    [op |-> "on_bar",
     bar |-> IF used THEN bar ELSE NoBar,
     atr |-> IF used THEN atr ELSE 0,
     decided |-> TRUE,
     evaluated |-> evaluated,
     pos_seen |-> pos_seen,
     pre_cond |-> IF evaluated THEN pre_cond ELSE 0,
     entry_cond |-> IF evaluated THEN entry_cond ELSE 0]

on_bar(bar, atr, fast, slow, filter, capital, sync_exit, sync_open) ==
    /\ call = <<>>
    /\ am_count < am_size + MaxLiveBars
    /\ update_bar(fast, slow)
    /\ IF ~decides(am_inited')
       THEN /\ Store(Fields)
            /\ last' = [Idle EXCEPT !.op = "on_bar"]
       ELSE LET x == check_exit_strategy(Fields, bar, atr, sync_exit)
                pre_cond == check_pre_condition(filter[1], filter[2], filter[3])
                entry_cond == check_entry_condition(fast, slow, ma_fast, ma_slow)
            IN  IF enters(x.pos)
                THEN LET y == IF agree(pre_cond, entry_cond)
                              THEN execute_open(x, bar, pre_cond, atr, capital, sync_open)
                              ELSE x
                     IN  /\ Store(y)
                         /\ last' = Read(bar, atr, pos # 0 \/ y.sent # <<>>,
                                         TRUE, x.pos, pre_cond, entry_cond)
                ELSE /\ Store(x)
                     /\ last' = Read(bar, atr, TRUE, FALSE, x.pos, 0, 0)
    /\ UNCHANGED <<call, ret>>

\* a bar of the warm-up
WarmBar ==
    /\ am_count + 1 < am_size
    /\ \E bar \in Bars, atr \in Atrs, fast \in Mas, slow \in Mas,
          filter \in Filters, capital \in Capitals, sync_open \in BOOLEAN :
        on_bar(bar, atr, fast, slow, filter, capital, FALSE, sync_open)

\* a bar that finds the strategy flat and the two conditions not agreeing:
\* the call reads the averages only
IdleBar ==
    /\ am_count + 1 >= am_size
    /\ pos = 0
    /\ \E fast \in Mas, slow \in Mas, filter \in Filters :
        /\ ~agree(check_pre_condition(filter[1], filter[2], filter[3]),
                  check_entry_condition(fast, slow, ma_fast, ma_slow))
        /\ on_bar(NoBar, 0, fast, slow, filter, init_capital, FALSE, FALSE)

\* a bar that finds the strategy flat and the two conditions agreeing
EntryBar ==
    /\ am_count + 1 >= am_size
    /\ pos = 0
    /\ \E fast \in Mas, slow \in Mas, filter \in Filters :
        /\ agree(check_pre_condition(filter[1], filter[2], filter[3]),
                 check_entry_condition(fast, slow, ma_fast, ma_slow))
        /\ \E bar \in Bars, atr \in Atrs, capital \in Capitals,
              sync_open \in BOOLEAN :
            on_bar(bar, atr, fast, slow, filter, capital, FALSE, sync_open)

\* a bar that finds a position held, the engine holding back any exit order:
\* pos stays non-zero and the entry logic is not reached
HeldBar ==
    /\ am_count + 1 >= am_size
    /\ pos # 0
    /\ \E bar \in Bars, atr \in Atrs, fast \in Mas, slow \in Mas :
        on_bar(bar, atr, fast, slow, <<1, 1, 1>>, init_capital, FALSE, FALSE)

\* a bar that finds a position held, the engine applying any exit order at once
HeldBarSync ==
    /\ am_count + 1 >= am_size
    /\ pos # 0
    /\ \E bar \in Bars, atr \in Atrs, fast \in Mas, slow \in Mas,
          filter \in Filters, capital \in Capitals, sync_open \in BOOLEAN :
        on_bar(bar, atr, fast, slow, filter, capital, TRUE, sync_open)

\* the engine fills an order it holds
Remove(q, i) == SubSeq(q, 1, i - 1) \o SubSeq(q, i + 1, Len(q))

fill(i) ==
    /\ call = <<>>
    /\ i \in 1 .. Len(orders)
    /\ LET s == Apply(Fields, orders[i])
       IN  Store([s EXCEPT !.orders = Remove(orders, i)])
    /\ last' = [Idle EXCEPT !.op = "fill"]
    /\ UNCHANGED <<am_count, am_inited, am_held, ma_fast, ma_slow, call, ret>>

Fill == \E i \in 1 .. Len(orders) : fill(i)

Next == WarmBar \/ IdleBar \/ EntryBar \/ HeldBar \/ HeldBarSync \/ Fill

Spec == Init /\ [][Next]_vars

-----------------------------------------------------------------------------
(* calculate_position_size on its own: atr, the capital found and atr_multi *)

SizerAtrs == {-1, 0, 1, 2, 4, 334}
SizerCapitals == {-100000, 0, 200, 50000, 100000}
SizerMultis == {-3, 0, 3}

Quiet ==
    /\ am_count = 0
    /\ am_inited = FALSE
    /\ am_held = 0
    /\ ma_fast = 1
    /\ ma_slow = 1
    /\ pos = 0
    /\ long_stop = 0
    /\ short_stop = 0
    /\ entry_price = 0
    /\ initial_risk = 0
    /\ orders = <<>>
    /\ sent = <<>>
    /\ last = Idle
    /\ closed_trades = 0

SizerInit ==
    /\ Quiet
    /\ r_multiples = <<>>
    /\ call \in [atr : SizerAtrs, capital : SizerCapitals, multi : SizerMultis]
    /\ ret = {}

Size ==
    /\ call # <<>>
    /\ ret = {}
    /\ ret' = {calculate_position_size(call.atr, call.capital, call.multi)}
    /\ UNCHANGED <<am_count, am_inited, am_held, ma_fast, ma_slow, strategy_vars,
                   sent, last, call>>

SizerSpec == SizerInit /\ [][Size]_vars

\* the strategy together with the calls of calculate_position_size on its own
SizingSpec == (Init \/ SizerInit) /\ [][Next \/ Size]_vars

-----------------------------------------------------------------------------
(* The Van Tharp statistics of the two drivers over a list of records *)

\* longest list of records
MaxRecords == 4
\* r_values, in units of 1e-4
RValues == {-10000, -5000, 0, 10000, 20000}

RECURSIVE SeqsUpTo(_, _)
SeqsUpTo(S, n) ==
    IF n = 0 THEN {<<>>}
    ELSE LET shorter == SeqsUpTo(S, n - 1)
         IN  shorter \cup {Append(q, x) : q \in {s \in shorter : Len(s) = n - 1}, x \in S}

RECURSIVE Sum(_)
Sum(q) == IF q = <<>> THEN 0 ELSE q[1] + Sum(Tail(q))

RECURSIVE Gcd(_, _)
Gcd(a, b) == IF b = 0 THEN Abs(a) ELSE Gcd(b, a % Abs(b))

RECURSIVE GcdOf(_)
GcdOf(q) == IF q = <<>> THEN 0 ELSE Gcd(q[1], GcdOf(Tail(q)))

\* a number a / b, and a number sign * scale * sqrt(num / den)
Rat(a, b) == <<a, b>>
Root(sign, scale, num, den) ==
    [sign |-> sign, scale |-> scale, num |-> num, den |-> den]
Zero == Root(0, 1, 0, 1)
Sign(x) == IF x > 0 THEN 1 ELSE IF x < 0 THEN -1 ELSE 0

\* what a driver hands on: the keys it reports and their values, whether an
\* error was raised, and whether a division by zero was evaluated
Nothing == [raised |-> "", div0 |-> FALSE, keys |-> {},
            win_rate |-> Rat(0, 1), mean_r |-> Rat(0, 1), std_r |-> Zero,
            sqn |-> Zero, total_r |-> 0]

\* the statistics computed without looking at the list first
nonempty_always(rs) == TRUE

\* `if r_multiples:` and `if not r_multiples:`
nonempty(rs) == rs # <<>>

\* `... if std_r != 0 else 0`
std_nonzero(std_r) == std_r.sign # 0

\* r_vals = [x['r_value'] for x in r_multiples]
r_vals_of(rs) == [i \in 1 .. Len(rs) |-> rs[i].r_value]

\* the values over their greatest common divisor g (1 when all are 0)
Unit(r_vals) == LET g == GcdOf(r_vals) IN IF g = 0 THEN 1 ELSE g
Scaled(r_vals) == LET g == Unit(r_vals) IN [i \in 1 .. Len(r_vals) |-> r_vals[i] \div g]

\* np.std(r_vals), the population standard deviation
\* sqrt(n * sum(r^2) - sum(r)^2) / n, computed over the scaled values
np_std(r_vals) ==
    LET n == Len(r_vals)
        u == Scaled(r_vals)
        s == Sum(u)
        ss == Sum([i \in 1 .. n |-> u[i] * u[i]])
        v == n * ss - s * s
    IN  Root(Sign(v), Unit(r_vals), v, n * n)

\* np.sqrt(n) * (mean_r / std_r) = sign(s) * sqrt(n * s^2 / (n * ss - s^2)),
\* the scale cancelling
sqn_of(r_vals, std_r) ==
    LET n == Len(r_vals)
        s == Sum(Scaled(r_vals))
    IN  Root(Sign(s), 1, n * s * s, std_r.num)

\* run_backtest of 撒普统计对/CTABacktest.py, lines 79-91
tharp_stats(rs) ==
    IF ~nonempty(rs) THEN Nothing
    ELSE LET r_vals == r_vals_of(rs)
             n == Len(r_vals)
             wins == Cardinality({i \in 1 .. n : r_vals[i] > 0})
             std_r == np_std(r_vals)
             divides == std_nonzero(std_r)
         IN  IF n = 0 THEN [Nothing EXCEPT !.raised = "ZeroDivisionError"]
             ELSE
             [raised |-> "",
              div0 |-> divides /\ std_r.sign = 0,
              keys |-> {"win_rate", "mean_r", "std_r", "sqn", "total_r"},
              win_rate |-> Rat(wins * 100, n),
              mean_r |-> Rat(Sum(r_vals), n),
              std_r |-> std_r,
              sqn |-> IF divides THEN sqn_of(r_vals, std_r) ELSE Zero,
              total_r |-> Sum(r_vals)]

\* print_van_tharp_stats of batchBacktest.py: the records are dicts, and
\* line 110 compares each with 0 (`r > 0`), which raises TypeError, before it
\* divides by len(r_multiples)
print_van_tharp_stats(rs) ==
    IF ~nonempty(rs) THEN Nothing
    ELSE IF Len(rs) = 0 THEN [Nothing EXCEPT !.raised = "ZeroDivisionError"]
    ELSE [Nothing EXCEPT !.raised = "TypeError"]

StatsInit ==
    /\ Quiet
    /\ r_multiples \in SeqsUpTo([r_value : RValues], MaxRecords)
    /\ call = <<>>
    /\ ret = {}

Answer(r) ==
    /\ call = <<>>
    /\ ret = {}
    /\ ret' = {r}
    /\ UNCHANGED <<am_count, am_inited, am_held, ma_fast, ma_slow, strategy_vars,
                   sent, last, call>>

RunBacktestStats == Answer([fn |-> "run_backtest", out |-> tharp_stats(r_multiples)])

PrintVanTharpStats ==
    Answer([fn |-> "print_van_tharp_stats", out |-> print_van_tharp_stats(r_multiples)])

StatsSpec == StatsInit /\ [][RunBacktestStats \/ PrintVanTharpStats]_vars

\* a run of the strategy with the statistics of run_backtest computed at some
\* point of it
QuerySpec == Init /\ [][Next \/ RunBacktestStats]_vars

-----------------------------------------------------------------------------
(* The strategy started with a position the engine hands it: pos is set from *)
(* outside execute_open, entry_price and initial_risk being 0 as __init__    *)
(* leaves them and the stops 0 as the class declares them                    *)

RestoredInit ==
    /\ am_count = 0
    /\ am_inited = FALSE
    /\ am_held = 0
    /\ ma_fast \in Mas
    /\ ma_slow \in Mas
    /\ pos \in {-position_limit, position_limit}
    /\ long_stop = 0
    /\ short_stop = 0
    /\ entry_price = 0
    /\ initial_risk = 0
    /\ r_multiples = <<>>
    /\ orders = <<>>
    /\ sent = <<>>
    /\ last = Idle
    /\ closed_trades = 0
    /\ call = <<>>
    /\ ret = {}

RestoredSpec == RestoredInit /\ [][Next]_vars

-----------------------------------------------------------------------------
(* check_pre_condition and check_entry_condition on their own, over the      *)
(* averages the window may deliver                                           *)

FilterMas == 1 .. 4
CrossMas == 1 .. 3

SignalInit ==
    /\ Quiet
    /\ r_multiples = <<>>
    /\ call \in [fn : {"check_pre_condition"},
                 fast : FilterMas, mid : FilterMas, slow : FilterMas]
                \cup [fn : {"check_entry_condition"},
                      fast : CrossMas, slow : CrossMas,
                      prev_fast : CrossMas, prev_slow : CrossMas]
    /\ ret = {}

Returns(fn, value) ==
    /\ call.fn = fn
    /\ ret = {}
    /\ ret' = {value}
    /\ UNCHANGED <<am_count, am_inited, am_held, ma_fast, ma_slow, strategy_vars,
                   sent, last, call>>

CheckPreCondition ==
    /\ call.fn = "check_pre_condition"
    /\ Returns("check_pre_condition",
               check_pre_condition(call.fast, call.mid, call.slow))

CheckEntryCondition ==
    /\ call.fn = "check_entry_condition"
    /\ Returns("check_entry_condition",
               check_entry_condition(call.fast, call.slow,
                                     call.prev_fast, call.prev_slow))

SignalSpec == SignalInit /\ [][CheckPreCondition \/ CheckEntryCondition]_vars

-----------------------------------------------------------------------------
(* Properties *)

IsEntry(o) == o.side \in {"buy", "short"}
IsExit(o) == o.side \in {"sell", "cover"}
Entries == {i \in 1 .. Len(sent) : IsEntry(sent[i])}
Exits == {i \in 1 .. Len(sent) : IsExit(sent[i])}

\* C1: while the position stays Long over a step (no close in between) the
\* long stop does not decrease, and while it stays Short the short stop does
\* not increase.
C1_StopRatchets ==
    [][/\ (pos > 0 /\ pos' > 0 /\ closed_trades' = closed_trades)
            => long_stop' >= long_stop
       /\ (pos < 0 /\ pos' < 0 /\ closed_trades' = closed_trades)
            => short_stop' <= short_stop]_vars

\* a Long position whose stop a later bar has raised above its initial level
\* without closing the position
C1_Witness ==
    /\ last.op = "on_bar"
    /\ pos > 0
    /\ sent = <<>>
    /\ long_stop > entry_price - initial_risk

\* C2: the number of records equals the number of closed trades (compared
\* when the engine holds no unfilled order).
C2_OneRecordPerClosedTrade ==
    orders = <<>> => Len(r_multiples) = closed_trades

\* C3: an entry intent is emitted only with pos = 0 at the entry guard and
\* both conditions non-zero and equal; a buy for +1, a short for -1.
C3_EntryOnlyOnAgreement ==
    \A i \in Entries :
        /\ last.evaluated
        /\ last.pos_seen = 0
        /\ last.pre_cond # 0
        /\ last.pre_cond = last.entry_cond
        /\ (sent[i].side = "buy") = (last.pre_cond = 1)
        /\ (sent[i].side = "short") = (last.pre_cond = -1)

\* a buy emitted with both conditions +1, and a call on which the conditions
\* were evaluated, disagreed and nothing was emitted is reachable as well
C3_Witness ==
    /\ Len(sent) = 1
    /\ sent[1].side = "buy"
    /\ last.pre_cond = 1
    /\ last.entry_cond = 1

\* C4: the absolute position never exceeds the size of one entry order.
C4_NoPyramiding == Abs(pos) <= position_limit

\* C5: a bar delivered before the window is inited changes the window only:
\* no intent, no change of stops or entry state, no record, no decision.
C5_NoDecisionBeforeInited ==
    [][(last'.op = "on_bar" /\ ~am_inited')
          => /\ sent' = <<>>
             /\ ~last'.decided
             /\ am_count' = am_count + 1
             /\ UNCHANGED <<pos, long_stop, short_stop, entry_price,
                            initial_risk, r_multiples, orders>>]_vars

\* a warm-up bar on which both conditions would have agreed
C5_Witness ==
    /\ last.op = "on_bar"
    /\ ~am_inited
    /\ am_count = am_size - 1
    /\ ma_fast > ma_slow

\* C6: the record appended when a position is closed carries the R of the
\* direction closed, (close - entry) / risk for a Long and
\* (entry - close) / risk for a Short (to 4 decimals).
C6_RValueOfClosedDirection ==
    [][Len(r_multiples') = Len(r_multiples) + 1
          => LET rec == r_multiples'[Len(r_multiples')]
                 close == last'.bar.close
             IN  /\ pos > 0 => rec.r_value = Round4(close - entry_price, initial_risk)
                 /\ pos < 0 => rec.r_value = Round4(entry_price - close, initial_risk)]_vars

\* C7: calculate_position_size returns 0 and raises nothing whenever
\* atr * atr_multi <= 0, whatever the capital.
C7_ZeroWhenRiskNotPositive ==
    \A r \in ret :
        call.atr * call.multi <= 0 => (~r.raised /\ r.value = 0)

\* the quotient rounded down (b > 0)
Floor(a, b) == a \div b

\* C8: with atr * atr_multi > 0 the size is
\* max(0, min(floor(capital * risk_percent / (atr * atr_multi)), position_limit)),
\* and every entry order emitted has a size in 1 .. position_limit.
C8_SizeFormula ==
    /\ \A r \in ret :
          call.atr * call.multi > 0
             => /\ ~r.raised
                /\ r.value =
                     Max(0, Min(Floor(call.capital * risk_percent_num,
                                      risk_percent_den * call.atr * call.multi),
                                position_limit))
    /\ \A i \in Entries : sent[i].volume \in 1 .. position_limit

\* a size strictly between 0 and the limit, and one cut to the limit
C8_Witness ==
    \E r \in ret :
        /\ call.atr * call.multi > 0
        /\ r.value > 0
        /\ r.value < position_limit

C10_ZeroStdGivesZeroSqn ==
    \A r \in ret :
        (r_multiples # <<>> /\ np_std(r_vals_of(r_multiples)).sign = 0)
           => /\ r.out.raised = ""
              /\ ~r.out.div0
              /\ "sqn" \in r.out.keys
              /\ r.out.sqn = Zero

\* C11: over a non-empty list win_rate is the fraction (0..1) of records with
\* r_value > 0, total_r is the sum of the r_values and mean_r is total_r / n.
C11_WinRateMeanTotal ==
    \A r \in ret :
        r_multiples # <<>>
           => LET r_vals == r_vals_of(r_multiples)
                  n == Len(r_vals)
                  wins == Cardinality({i \in 1 .. n : r_vals[i] > 0})
              IN  /\ r.out.raised = ""
                  /\ r.out.win_rate[1] * n = wins * r.out.win_rate[2]
                  /\ r.out.total_r = Sum(r_vals)
                  /\ r.out.mean_r[1] * n = Sum(r_vals) * r.out.mean_r[2]

IsPrefix(a, b) == Len(a) <= Len(b) /\ SubSeq(b, 1, Len(a)) = a

\* C12: a statistics query changes neither the records nor the position, the
\* stops and the entry state, and every step leaves the records it found as a
\* prefix of the list.
C12_ReadOnlyAppendOnly ==
    [][/\ ret' # ret
            => UNCHANGED <<r_multiples, pos, long_stop, short_stop,
                           entry_price, initial_risk, orders>>
       /\ IsPrefix(r_multiples, r_multiples')]_vars

\* a query answered over one record, and a later bar appending a second one
C12_Witness ==
    /\ last.op = "on_bar"
    /\ Len(r_multiples) = 2
    /\ \E r \in ret : r.out.keys # {} /\ r.out.mean_r[2] = 1

ExitsNext == {i \in 1 .. Len(sent') : IsExit(sent'[i])}
EntriesNext == {i \in 1 .. Len(sent') : IsEntry(sent'[i])}

\* the exit conditions of a call that finds the fields of the current state
\* and reads the bar and the ATR the step's operation read
LongStopHit ==
    pos > 0 /\ last'.bar.close <= Max(long_stop, last'.bar.high - atr_multi * last'.atr)
ShortStopHit ==
    pos < 0 /\ last'.bar.close >= Min(short_stop, last'.bar.low + atr_multi * last'.atr)

\* C14: on a bar after inited the exit check comes first and whatever the
\* state: an exit it decides is the first intent of the call, the entry logic
\* is evaluated exactly when pos is 0 once the exit check is done, and an
\* entry intent comes after any exit intent of the same call.
C14_ExitBeforeEntry ==
    [][(last'.op = "on_bar" /\ last'.decided)
          => /\ last'.evaluated = (last'.pos_seen = 0)
             /\ EntriesNext # {} => last'.pos_seen = 0
             /\ \A i \in EntriesNext, j \in ExitsNext : j < i
             /\ LongStopHit => (Len(sent') >= 1 /\ sent'[1].side = "sell")
             /\ ShortStopHit => (Len(sent') >= 1 /\ sent'[1].side = "cover")]_vars

\* a call that emitted an exit and, the position being flat after it, an entry
C14_Witness ==
    /\ last.op = "on_bar"
    /\ Len(sent) = 2
    /\ IsExit(sent[1])
    /\ IsEntry(sent[2])

\* C15: while Long a bar emits an exit iff close <= max(stop, high - atr_multi
\* * atr), while Short iff close >= min(stop, low + atr_multi * atr); the exit
\* is a sell for a Long and a cover for a Short, of the full absolute position.
C15_ExitOnStop ==
    [][(last'.op = "on_bar" /\ last'.decided)
          => /\ pos > 0 => /\ (ExitsNext # {}) = LongStopHit
                           /\ \A i \in ExitsNext :
                                 sent'[i].side = "sell" /\ sent'[i].volume = Abs(pos)
             /\ pos < 0 => /\ (ExitsNext # {}) = ShortStopHit
                           /\ \A i \in ExitsNext :
                                 sent'[i].side = "cover" /\ sent'[i].volume = Abs(pos)
             /\ pos = 0 => ExitsNext = {}]_vars

\* a Long closed by a bar whose close equals the stop ratcheted on that bar
C15_Witness ==
    /\ last.op = "on_bar"
    /\ Len(sent) = 1
    /\ sent[1].side = "sell"
    /\ last.bar.close = long_stop
    /\ long_stop > entry_price - initial_risk

\* C16: an entry sets entry_price to the bar's close, initial_risk to
\* atr * atr_multi of that bar, and the stop of its side to close - risk for a
\* buy and close + risk for a short, whatever the stops were before.
C16_StopFromEntryBar ==
    \A i \in Entries :
        /\ entry_price = last.bar.close
        /\ initial_risk = last.atr * atr_multi
        /\ sent[i].side = "buy" => long_stop = last.bar.close - initial_risk
        /\ sent[i].side = "short" => short_stop = last.bar.close + initial_risk

\* a buy after an earlier trade was closed
C16_Witness ==
    /\ last.op = "on_bar"
    /\ Len(sent) = 1
    /\ sent[1].side = "buy"
    /\ closed_trades >= 1
    /\ Len(r_multiples) >= 1

\* C17: while the position is flat (and no order is unfilled) no stop price,
\* entry price or initial risk is retained.
C17_NoStopStateWhileFlat ==
    (pos = 0 /\ orders = <<>>)
       => /\ long_stop = 0
          /\ short_stop = 0
          /\ entry_price = 0
          /\ initial_risk = 0

\* C18: an exit triggered with initial_risk = 0 appends no record and still
\* emits the exit for the full position; every other exit appends exactly one
\* record; a call without an exit appends none.
C18_NoRecordOnZeroRisk ==
    [][(last'.op = "on_bar" /\ last'.decided)
          => /\ (ExitsNext # {} /\ initial_risk = 0) => r_multiples' = r_multiples
             /\ (ExitsNext # {} /\ initial_risk # 0)
                   => Len(r_multiples') = Len(r_multiples) + 1
             /\ ExitsNext = {} => r_multiples' = r_multiples
             /\ (initial_risk = 0 /\ (LongStopHit \/ ShortStopHit))
                   => \E i \in ExitsNext : sent'[i].volume = Abs(pos)]_vars

\* an exit emitted for a position whose initial_risk is 0
C18_Witness ==
    /\ last.op = "on_bar"
    /\ Len(sent) = 1
    /\ IsExit(sent[1])
    /\ sent[1].volume = position_limit
    /\ initial_risk = 0
    /\ r_multiples = <<>>

\* C19: check_pre_condition returns +1 exactly when fast > mid > slow, -1
\* exactly when fast < mid < slow, 0 otherwise and on every tie, and nothing
\* but -1, 0, +1.
C19_RegimeStrict ==
    \A r \in ret :
        call.fn = "check_pre_condition"
           => LET up == call.fast > call.mid /\ call.mid > call.slow
                  down == call.fast < call.mid /\ call.mid < call.slow
                  tie == call.fast = call.mid \/ call.mid = call.slow
                            \/ call.fast = call.slow
              IN  /\ r \in {-1, 0, 1}
                  /\ (r = 1) = up
                  /\ (r = -1) = down
                  /\ tie => r = 0

\* a tie of the fast and the mid average above the slow one, answered 0
C19_Witness ==
    /\ call.fn = "check_pre_condition"
    /\ call.fast = call.mid
    /\ call.mid > call.slow
    /\ ret = {0}

\* C20: check_entry_condition returns +1 exactly when fast > slow and
\* prev_fast <= prev_slow, -1 exactly when fast < slow and prev_fast >=
\* prev_slow, 0 otherwise; after a +1 (-1) the next bar returns 0 as long as
\* fast > slow (fast < slow) still holds on it.
C20_CrossoverOnce ==
    \A r \in ret :
        call.fn = "check_entry_condition"
           => LET up == call.fast > call.slow /\ call.prev_fast <= call.prev_slow
                  down == call.fast < call.slow /\ call.prev_fast >= call.prev_slow
              IN  /\ r \in {-1, 0, 1}
                  /\ (r = 1) = up
                  /\ (r = -1) = down
                  /\ ~(up /\ down)
                  /\ \A f \in CrossMas, s \in CrossMas :
                        /\ (r = 1 /\ f > s)
                              => check_entry_condition(f, s, call.fast, call.slow) = 0
                        /\ (r = -1 /\ f < s)
                              => check_entry_condition(f, s, call.fast, call.slow) = 0

\* a cross up from a tie of the previous bar's averages
C20_Witness ==
    /\ call.fn = "check_entry_condition"
    /\ call.prev_fast = call.prev_slow
    /\ ret = {1}

\* the exit orders the engine holds unfilled
ExitsUnfilled(q) == {i \in 1 .. Len(q) : IsExit(q[i])}

\* C21: a position gets at most one exit intent, also while the engine leaves
\* the exit unfilled over later bars: the engine never holds two exits at
\* once, and no fill of an exit takes pos from Long to Short or from Short to
\* Long.
C21_OneExitPerPosition ==
    [][/\ Cardinality(ExitsUnfilled(orders')) <= 1
       /\ \A i \in ExitsUnfilled(orders) :
             (last'.op = "fill" /\ orders' = Remove(orders, i)
                 /\ pos' = pos + Signed(orders[i]))
                => ~(pos > 0 /\ pos' < 0) /\ ~(pos < 0 /\ pos' > 0)]_vars

\* C22: a call of on_bar emits at most one intent, never an exit together with
\* an entry, and a call that finds pos = 0 and the conditions agreeing but
\* emits no entry leaves pos, entry_price, initial_risk and both stops as they
\* were.
C22_OneIntentPerBar ==
    [][last'.op = "on_bar"
          => /\ Len(sent') <= 1
             /\ ~(ExitsNext # {} /\ EntriesNext # {})
             /\ (pos = 0 /\ last'.evaluated /\ EntriesNext = {}
                    /\ agree(last'.pre_cond, last'.entry_cond))
                   => UNCHANGED <<pos, entry_price, initial_risk,
                                  long_stop, short_stop>>]_vars

====
